---- MODULE Spec2Model ----
(***************************************************************************)
(* A model of the agentic graph-RAG repository: the read-only query guard  *)
(* of Neo4jQueryTool, the bounded tool-call loop of ToolCallingAgent.ask,  *)
(* the extract/generate/execute/format pipeline of GraphRAGAgent.ask, the  *)
(* AnswerFormatter and GraphRAGAgent.get_statistics.                       *)
(*                                                                         *)
(* Query texts are TLA+ strings, i.e. sequences of characters; the Python  *)
(* string methods the code uses (upper, strip, in, startswith, split,      *)
(* join, replace) are defined character by character below.                *)
(***************************************************************************)
EXTENDS Integers, Sequences, FiniteSets, TLC

VARIABLES
    vOp,           \* which method of Neo4jQueryTool was called last: "none", "validate", "execute"
    vQuery,        \* the argument of that call
    vResult,       \* what _validate_query returned for it
    tPayload,      \* what execute_cypher returned for it
    tSessions,     \* number of driver.session() openings made by that execute_cypher
    tRuns          \* the queries handed to session.run by that execute_cypher

VARIABLES
    pc,              \* where ToolCallingAgent.ask stands: "idle", "awaiting_model",
                     \* "executing_tool", "done" (returned success) or "failed" (returned failure)
    question,        \* ask's argument
    messages,        \* the local conversation list
    tool_calls_made, \* the local list of executed tool calls
    all_results,     \* the local list of rows
    iteration,       \* the loop counter
    response,        \* what the last llm_with_tools.invoke returned or raised
    pending,         \* the tool calls of `response` the for loop has not reached yet
    result,          \* the dictionary ask returned
    llmInvocations,  \* number of llm_with_tools.invoke calls made by this ask
    toolExecutions,  \* number of neo4j_tool.execute_cypher calls made by this ask
    requestedCalls,  \* number of tool calls the model requested in this ask
    widestResponse,  \* the largest number of tool calls one response of this ask carried
    toolTurns,       \* number of responses of this ask that carried tool calls
    aSessions,       \* number of driver sessions this ask opened
    aRuns,           \* the queries this ask handed to session.run, in order
    aFailures,       \* what went wrong during this ask, in order: "model" (invoke raised),
                     \* "validation" (the guard rejected a query), "execution" (the store raised)
    aQueries,        \* the queries this ask passed to execute_cypher, in order
    aRowsReturned,   \* the rows those execute_cypher calls returned, in order
    agent,           \* the fields of the ToolCallingAgent object: system_prompt and tools
    firstSent,       \* the conversation passed to the first llm_with_tools.invoke of this ask
    carried,         \* whether an earlier ask on this agent collected rows
    observation      \* what the last neo4j_tool.execute_cypher of this ask returned

VARIABLES
    gOp,             \* "none", or "ask" once GraphRAGAgent.ask has returned
    gResult,         \* the dictionary GraphRAGAgent.ask returned
    gLlm,            \* the chains that ask invoked, in order: "extract", "generate", "format"
    gSessions,       \* number of driver sessions that ask opened
    gRuns,           \* the queries that ask handed to session.run, in order
    gThrown,         \* where exceptions were thrown during that ask, in order: "extract",
                     \* "generate", "format" (the chain raised), "processing", "store"
    gCaught,         \* the text of the exception that reached ask's except clause, or None
    gValidation,     \* what generate_with_validation reported to ask, if it was called
    gGenerated       \* the text the model returned to CypherGenerator.generate, or None

VARIABLES
    fOp,             \* which method of AnswerFormatter was called: "none", "format_answer",
                     \* "_format_simple"
    fQuestion,       \* the question argument of that call
    fRows,           \* the results argument of that call
    fModel,          \* what the phrasing chain did when format_answer invoked it
    fAnswer,         \* the string the call returned
    fLlm,            \* the chain invocations the call made
    fPath            \* the return statement of format_answer the call left through

VARIABLES
    sStore,          \* the graph held by the store: its nodes (label lists) and relationships
    sOp,             \* "none", or "stats" once GraphRAGAgent.get_statistics has returned
    sFault,          \* the driver call of get_statistics that raised: 0 (none), 1 (session),
                     \* 2..5 (the four queries)
    sResult,         \* the dictionary get_statistics returned
    sRuns,           \* the queries get_statistics handed to session.run, in order
    sLocals,         \* the locals nodes, relationships, total_nodes, total_rels of the call
    sModified        \* whether another client wrote to the store while the call was running

graphVars == <<gOp, gResult, gLlm, gSessions, gRuns, gThrown, gCaught, gValidation, gGenerated>>
formatVars == <<fOp, fQuestion, fRows, fModel, fAnswer, fLlm, fPath>>
statsVars == <<sStore, sOp, sFault, sResult, sRuns, sLocals, sModified>>

toolVars == <<vOp, vQuery, vResult, tPayload, tSessions, tRuns>>
askLocals == <<question, messages, tool_calls_made, all_results, iteration, response, pending>>
askHistory == <<llmInvocations, toolExecutions, requestedCalls, widestResponse, toolTurns,
                aSessions, aRuns, aFailures, aQueries, aRowsReturned, firstSent, carried,
                observation>>
agentVars == <<pc, result, askLocals, askHistory, agent>>
vars == <<toolVars, agentVars, graphVars, formatVars, statsVars>>

\* Python's None, where the code stores it in a field that otherwise holds text.
None == "<None>"

(***************************************************************************)
(* Python string methods                                                   *)
(***************************************************************************)
LowerLetters == "abcdefghijklmnopqrstuvwxyz"
UpperLetters == "ABCDEFGHIJKLMNOPQRSTUVWXYZ"

CharAt(s, i) == SubSeq(s, i, i)

\* str.upper() of one character: a-z map to A-Z, every other character of the
\* alphabet used here (upper-case letters, digits, punctuation, whitespace) is kept.
UpperMap ==
    [c \in {CharAt(LowerLetters, i) : i \in 1..Len(LowerLetters)} |->
        CharAt(UpperLetters, CHOOSE i \in 1..Len(LowerLetters) : CharAt(LowerLetters, i) = c)]

UpperChar(c) == IF c \in DOMAIN UpperMap THEN UpperMap[c] ELSE c

\* str.upper() walks the string once, left to right
RECURSIVE UpperFrom(_, _)
UpperFrom(s, i) ==
    IF i > Len(s) THEN ""
    ELSE UpperChar(CharAt(s, i)) \o UpperFrom(s, i + 1)

Upper(s) == UpperFrom(s, 1)

\* `k in s`
Contains(s, k) ==
    \E i \in 1..(Len(s) - Len(k) + 1) : SubSeq(s, i, i + Len(k) - 1) = k

IsSpace(c) == c \in {" ", "\n", "\t", "\r"}

RECURSIVE LStrip(_)
LStrip(s) ==
    IF Len(s) > 0 /\ IsSpace(CharAt(s, 1)) THEN LStrip(SubSeq(s, 2, Len(s))) ELSE s

RECURSIVE RStrip(_)
RStrip(s) ==
    IF Len(s) > 0 /\ IsSpace(CharAt(s, Len(s))) THEN RStrip(SubSeq(s, 1, Len(s) - 1)) ELSE s

\* str.strip()
Strip(s) == RStrip(LStrip(s))

\* s.startswith(k)
StartsWith(s, k) == Len(s) >= Len(k) /\ SubSeq(s, 1, Len(k)) = k

\* s.replace(old, new): the non-overlapping occurrences, left to right
RECURSIVE Replace(_, _, _)
Replace(s, old, new) ==
    IF Len(s) < Len(old) THEN s
    ELSE IF StartsWith(s, old) THEN new \o Replace(SubSeq(s, Len(old) + 1, Len(s)), old, new)
    ELSE CharAt(s, 1) \o Replace(SubSeq(s, 2, Len(s)), old, new)

\* s.split(sep) for a one-character separator
RECURSIVE Split(_, _)
Split(s, sep) ==
    IF \E i \in 1..Len(s) : CharAt(s, i) = sep
    THEN LET i == CHOOSE i \in 1..Len(s) :
                     CharAt(s, i) = sep /\ \A j \in 1..(i - 1) : CharAt(s, j) # sep
         IN <<SubSeq(s, 1, i - 1)>> \o Split(SubSeq(s, i + 1, Len(s)), sep)
    ELSE <<s>>

\* sep.join(parts)
RECURSIVE JoinWith(_, _)
JoinWith(sep, parts) ==
    IF Len(parts) = 0 THEN ""
    ELSE IF Len(parts) = 1 THEN parts[1]
    ELSE parts[1] \o sep \o JoinWith(sep, Tail(parts))

(***************************************************************************)
(* Neo4jQueryTool._validate_query                                          *)
(***************************************************************************)
required_keywords == <<"MATCH", "RETURN">>
write_operations == <<"CREATE", "DELETE", "REMOVE", "SET", "MERGE", "DETACH">>
invalid_labels == <<"User", "Organization", "Item", "Service", "Customer", "Order">>

Range(f) == {f[i] : i \in DOMAIN f}

\* the emptiness test without the strip
IsEmptyQuery_unstripped(query) == query = None \/ Len(query) = 0

\* `not query or len(query.strip()) == 0`
IsEmptyQuery(query) == query = None \/ Len(query) = 0 \/ Len(Strip(query)) = 0

\* a dropped `not`: `if any(keyword in query_upper ...)`
RequiredKeywordMissing_inverted(query_upper) ==
    \E k \in Range(required_keywords) : Contains(query_upper, k)

\* `not any(keyword in query_upper for keyword in ["MATCH", "RETURN"])`
RequiredKeywordMissing(query_upper) ==
    ~ \E k \in Range(required_keywords) : Contains(query_upper, k)

\* `query_upper.startswith(op)` instead of `op in query_upper`
WriteOperationFound_prefix(query_upper) ==
    \E op \in Range(write_operations) : SubSeq(query_upper, 1, Len(op)) = op

\* `any(op in query_upper for op in write_operations)`
WriteOperationFound(query_upper) ==
    \E op \in Range(write_operations) : Contains(query_upper, op)

\* the test of the loop body, for one label
LabelHit(query_upper, label) ==
    \/ Contains(query_upper, ":" \o Upper(label))
    \/ Contains(query_upper, ":(" \o Upper(label))

\* the checks made on the uppercased query, in the order of the code
validate_uppercased(query_upper) ==
    IF RequiredKeywordMissing(query_upper)
    THEN [valid |-> FALSE, error |-> "Query must contain MATCH and RETURN"]
    ELSE IF WriteOperationFound(query_upper)
    THEN [valid |-> FALSE, error |-> "Write operations are not allowed"]
    ELSE IF \E i \in DOMAIN invalid_labels : LabelHit(query_upper, invalid_labels[i])
    THEN LET first == CHOOSE i \in DOMAIN invalid_labels :
                         /\ LabelHit(query_upper, invalid_labels[i])
                         /\ \A j \in 1..(i - 1) : ~ LabelHit(query_upper, invalid_labels[j])
         IN [valid |-> FALSE, error |-> "Invalid node label: " \o invalid_labels[first]]
    ELSE [valid |-> TRUE, error |-> None]

_validate_query(query) ==
    IF IsEmptyQuery(query)
    THEN [valid |-> FALSE, error |-> "Empty query"]
    ELSE CHOOSE r \in {validate_uppercased(u) : u \in {Upper(query)}} : TRUE

(***************************************************************************)
(* The graph store, as seen through the driver: what one session does with *)
(* one query.  The store is an external service, so the outcome is an      *)
(* input: opening the session fails, session.run fails, or rows come back. *)
(***************************************************************************)
MaxRows == 2
Rows == {"row_a", "row_b"}

RowLists == UNION {[1..n -> Rows] : n \in 0..MaxRows}

DbOutcomes ==
    {[kind |-> "rows", rows |-> rs, msg |-> None] : rs \in RowLists}
    \cup {[kind |-> "session_error", rows |-> <<>>, msg |-> "Unable to connect"],
          [kind |-> "run_error", rows |-> <<>>, msg |-> "Query failed"]}

\* execute_cypher whose except clause reports an empty, successful result
execute_cypher_empty_on_error(cypher_query, db) ==
    LET validation == _validate_query(cypher_query) IN
    IF ~ validation.valid
    THEN [payload  |-> [success |-> FALSE, results |-> <<>>, count |-> 0,
                        error |-> "Invalid query: " \o validation.error],
          validation |-> validation,
          sessions |-> 0,
          runs     |-> <<>>]
    ELSE [payload  |-> [success |-> TRUE, results |-> db.rows, count |-> Len(db.rows),
                        error |-> None],
          validation |-> validation,
          sessions |-> 1,
          runs     |-> IF db.kind = "session_error" THEN <<>> ELSE <<cypher_query>>]

\* execute_cypher with the validation moved inside the `with self.driver.session()` block
execute_cypher_session_first(cypher_query, db) ==
    LET validation == _validate_query(cypher_query) IN
    IF db.kind = "session_error"
    THEN [payload  |-> [success |-> FALSE, results |-> <<>>, count |-> 0, error |-> db.msg],
          validation |-> validation,
          sessions |-> 1,
          runs     |-> <<>>]
    ELSE IF ~ validation.valid
    THEN [payload  |-> [success |-> FALSE, results |-> <<>>, count |-> 0,
                        error |-> "Invalid query: " \o validation.error],
          validation |-> validation,
          sessions |-> 1,
          runs     |-> <<>>]
    ELSE IF db.kind = "rows"
    THEN [payload  |-> [success |-> TRUE, results |-> db.rows, count |-> Len(db.rows),
                        error |-> None],
          validation |-> validation,
          sessions |-> 1,
          runs     |-> <<cypher_query>>]
    ELSE [payload  |-> [success |-> FALSE, results |-> <<>>, count |-> 0, error |-> db.msg],
          validation |-> validation,
          sessions |-> 1,
          runs     |-> <<cypher_query>>]

(***************************************************************************)
(* Neo4jQueryTool.execute_cypher: the returned payload together with the   *)
(* value of its local `validation` and the driver calls it made (sessions  *)
(* opened, queries run).                                                   *)
(***************************************************************************)
execute_cypher(cypher_query, db) ==
    LET validation == _validate_query(cypher_query) IN
    IF ~ validation.valid
    THEN [payload  |-> [success |-> FALSE, results |-> <<>>, count |-> 0,
                        error |-> "Invalid query: " \o validation.error],
          validation |-> validation,
          sessions |-> 0,
          runs     |-> <<>>]
    ELSE IF db.kind = "rows"
    THEN [payload  |-> [success |-> TRUE, results |-> db.rows, count |-> Len(db.rows),
                        error |-> None],
          validation |-> validation,
          sessions |-> 1,
          runs     |-> <<cypher_query>>]
    ELSE [payload  |-> [success |-> FALSE, results |-> <<>>, count |-> 0, error |-> db.msg],
          validation |-> validation,
          sessions |-> 1,
          runs     |-> IF db.kind = "run_error" THEN <<cypher_query>> ELSE <<>>]

(***************************************************************************)
(* json.dumps(result, default=str) of an execute_cypher payload            *)
(***************************************************************************)
Digits == "0123456789"

RECURSIVE IntStr(_)
IntStr(n) ==
    IF n < 10 THEN CharAt(Digits, n + 1)
    ELSE IntStr(n \div 10) \o CharAt(Digits, (n % 10) + 1)

\* a row is the dictionary {"p.name": <row>}
RowJson(row) == "{\"p.name\": \"" \o row \o "\"}"

JsonDumps(payload) ==
    "{\"success\": " \o (IF payload.success THEN "true" ELSE "false")
    \o ", \"results\": [" \o JoinWith(", ", [i \in 1..Len(payload.results) |-> RowJson(payload.results[i])])
    \o "], \"count\": " \o IntStr(payload.count)
    \o ", \"error\": " \o (IF payload.error = None THEN "null" ELSE "\"" \o payload.error \o "\"")
    \o "}"

(***************************************************************************)
(* ToolCallingAgent.ask                                                    *)
(***************************************************************************)
max_iterations == 3

system_prompt == "You are a helpful AI assistant that answers questions about a Neo4j graph database."

SystemMessage(content) == [role |-> "system", content |-> content]
HumanMessage(content) == [role |-> "human", content |-> content]
AIMessage(r) == [role |-> "ai", content |-> r.content, tool_calls |-> r.tool_calls]
ToolMessage(content, id) == [role |-> "tool", content |-> content, tool_call_id |-> id]

\* a conversation that starts without the system prompt
InitialMessages_unprompted(prompt, q) == <<HumanMessage(q)>>

\* lines 137-140: the conversation ask starts from
InitialMessages(prompt, q) == <<SystemMessage(prompt), HumanMessage(q)>>

\* the while condition written `iteration <= max_iterations`
LoopGuard_inclusive(i) == i <= max_iterations

\* `while iteration < max_iterations`
LoopGuard(i) == i < max_iterations

\* `if not response.tool_calls`
IsFinalAnswer(r) == Len(r.tool_calls) = 0

\* the success dictionary with the answer taken from the question instead of the response
FinalResult_echo(q, r, calls, rows) ==
    [question |-> q, answer |-> q, tool_calls |-> calls, results |-> rows,
     success |-> TRUE, error |-> None]

\* the dictionary returned when the model answers without a tool call
FinalResult(q, r, calls, rows) ==
    [question |-> q, answer |-> r.content, tool_calls |-> calls, results |-> rows,
     success |-> TRUE, error |-> None]

\* the iteration-cap dictionary without the collected calls and rows
MaxIterationsResult_empty(q, calls, rows) ==
    [question |-> q,
     answer |-> "I encountered an issue processing your question after multiple attempts.",
     tool_calls |-> <<>>, results |-> <<>>, success |-> FALSE,
     error |-> "Max iterations reached"]

\* the iteration-cap dictionary with the error field left null
MaxIterationsResult_unexplained(q, calls, rows) ==
    [question |-> q,
     answer |-> "I encountered an issue processing your question after multiple attempts.",
     tool_calls |-> calls, results |-> rows, success |-> FALSE, error |-> None]

\* the iteration-cap dictionary reporting success
MaxIterationsResult_success(q, calls, rows) ==
    [question |-> q,
     answer |-> "I encountered an issue processing your question after multiple attempts.",
     tool_calls |-> calls, results |-> rows, success |-> TRUE, error |-> None]

\* the dictionary returned after the loop
MaxIterationsResult(q, calls, rows) ==
    [question |-> q,
     answer |-> "I encountered an issue processing your question after multiple attempts.",
     tool_calls |-> calls, results |-> rows, success |-> FALSE,
     error |-> "Max iterations reached"]

\* the except clause reporting a fixed text instead of str(e)
ErrorResult_generic(q, e) ==
    [question |-> q, answer |-> "I encountered an error: " \o e, tool_calls |-> <<>>,
     results |-> <<>>, success |-> FALSE, error |-> "Unknown error"]

\* the dictionary returned by the except clause
ErrorResult(q, e) ==
    [question |-> q, answer |-> "I encountered an error: " \o e, tool_calls |-> <<>>,
     results |-> <<>>, success |-> FALSE, error |-> e]

\* an except clause that lets the exception through (a narrower class than Exception)
AskCatches_none(e) == FALSE

\* `except Exception as e` around the body of ask: every exception the model, the
\* store or the processing can throw is an Exception
AskCatches(e) == TRUE

\* the entry with the count left out of the bookkeeping
ToolCallEntry_uncounted(name, query, payload) ==
    [function |-> name, query |-> query, success |-> payload.success, count |-> 0]

\* the entry with the success flag of the call left at True
ToolCallEntry_optimistic(name, query, payload) ==
    [function |-> name, query |-> query, success |-> TRUE, count |-> payload.count]

\* the dictionary appended to tool_calls_made
ToolCallEntry(name, query, payload) ==
    [function |-> name, query |-> query, success |-> payload.success, count |-> payload.count]

NoResult == [valid |-> FALSE, error |-> None]
NoPayload == [success |-> FALSE, results |-> <<>>, count |-> 0, error |-> None]

\* tool_call['args'].get('cypher_query', '')
ArgsGet(args) == IF args.has_query THEN args.cypher_query ELSE ""

NoReturn == [question |-> None, answer |-> None, tool_calls |-> <<>>, results |-> <<>>,
             success |-> FALSE, error |-> None]
NoResponse == [kind |-> "none", content |-> "", tool_calls |-> <<>>, msg |-> None]

(* What the hosted model may answer: text, tool calls, or an exception.    *)
MaxToolCalls == 4
Questions == {"Who works at TechCorp?"}
Contents == {"Alice works at TechCorp.", ""}
LlmErrors == {"Rate limit exceeded"}
AgentQueries == {"MATCH (n) RETURN n", "CREATE (n)"}
AgentDbOutcomes ==
    {[kind |-> "rows", rows |-> <<"row_a">>, msg |-> None],
     [kind |-> "run_error", rows |-> <<>>, msg |-> "Query failed"]}

CallShapes ==
    {[name |-> "execute_cypher_query", args |-> [has_query |-> TRUE, cypher_query |-> q]] :
        q \in AgentQueries}
    \cup {[name |-> "execute_cypher_query", args |-> [has_query |-> FALSE, cypher_query |-> ""]],
          [name |-> "lookup_person", args |-> [has_query |-> FALSE, cypher_query |-> ""]]}

\* the tool calls of one response; the ids are those the provider assigns
ToolCallLists(turn, n) ==
    {[k \in 1..n |-> [name |-> shapes[k].name, args |-> shapes[k].args,
                      id |-> "call_" \o IntStr(turn) \o "_" \o IntStr(k)]] :
        shapes \in [1..n -> CallShapes]}

Responses(turn, room) ==
    {[kind |-> "message", content |-> c, tool_calls |-> <<>>, msg |-> None] : c \in Contents}
    \cup {[kind |-> "message", content |-> "", tool_calls |-> tcs, msg |-> None] :
            tcs \in UNION {ToolCallLists(turn, n) : n \in 1..room}}
    \cup {[kind |-> "exception", content |-> "", tool_calls |-> <<>>, msg |-> e] : e \in LlmErrors}

NoGraphReturn == [question |-> None, entities |-> <<>>, cypher_query |-> "", raw_results |-> <<>>,
                  answer |-> None, success |-> FALSE, error |-> None]

\* generate_with_validation has not been called
NotGenerated == [called |-> FALSE, valid |-> FALSE, error |-> None]

GraphIdle ==
    /\ gOp = "none"
    /\ gResult = NoGraphReturn
    /\ gLlm = <<>>
    /\ gSessions = 0
    /\ gRuns = <<>>
    /\ gThrown = <<>>
    /\ gCaught = None
    /\ gValidation = NotGenerated
    /\ gGenerated = None

\* no call on the AnswerFormatter has been made
NoModelOutcome == [kind |-> "none", text |-> ""]

FormatIdle ==
    /\ fOp = "none"
    /\ fQuestion = ""
    /\ fRows = <<>>
    /\ fModel = NoModelOutcome
    /\ fAnswer = None
    /\ fLlm = <<>>
    /\ fPath = "none"

\* no call of get_statistics has been made, on an empty store
EmptyStore == [nodes |-> <<>>, rels |-> <<>>]
NoStatistics == [success |-> FALSE, statistics |-> None, error |-> None]
NoLocals == [nodes |-> None, relationships |-> None, total_nodes |-> None, total_rels |-> None]

StatsIdle ==
    /\ sStore = EmptyStore
    /\ sOp = "none"
    /\ sFault = 0
    /\ sResult = NoStatistics
    /\ sRuns = <<>>
    /\ sLocals = NoLocals
    /\ sModified = FALSE

\* __init__, lines 41-59: the fields ask reads
AgentFields == [system_prompt |-> system_prompt, tools |-> <<"execute_cypher_query">>]

AgentIdle ==
    /\ pc = "idle"
    /\ question = None
    /\ messages = <<>>
    /\ tool_calls_made = <<>>
    /\ all_results = <<>>
    /\ iteration = 0
    /\ response = NoResponse
    /\ pending = <<>>
    /\ result = NoReturn
    /\ llmInvocations = 0
    /\ toolExecutions = 0
    /\ requestedCalls = 0
    /\ widestResponse = 0
    /\ toolTurns = 0
    /\ aSessions = 0
    /\ aRuns = <<>>
    /\ aFailures = <<>>
    /\ aQueries = <<>>
    /\ aRowsReturned = <<>>
    /\ agent = AgentFields
    /\ firstSent = <<>>
    /\ carried = FALSE
    /\ observation = NoPayload

\* ask(q) is called: lines 135-149, up to the first test of the while condition
Ask(q) ==
    /\ pc \in {"idle", "done", "failed", "raised"}
    /\ question' = q
    /\ messages' = InitialMessages(agent.system_prompt, q)
    /\ tool_calls_made' = <<>>
    /\ all_results' = <<>>
    /\ iteration' = 0
    /\ response' = NoResponse
    /\ pending' = <<>>
    /\ llmInvocations' = 0
    /\ toolExecutions' = 0
    /\ requestedCalls' = 0
    /\ widestResponse' = 0
    /\ toolTurns' = 0
    /\ aSessions' = 0
    /\ aRuns' = <<>>
    /\ aFailures' = <<>>
    /\ aQueries' = <<>>
    /\ aRowsReturned' = <<>>
    /\ firstSent' = <<>>
    /\ carried' = (carried \/ Len(all_results) > 0)
    /\ observation' = NoPayload
    /\ IF LoopGuard(0)
       THEN pc' = "awaiting_model" /\ result' = NoReturn
       ELSE pc' = "failed" /\ result' = MaxIterationsResult(q, <<>>, <<>>)
    /\ UNCHANGED <<agent, toolVars, graphVars, formatVars, statsVars>>

\* one pass of lines 150-174: the model is invoked and answers with r
InvokeModel(r) ==
    /\ pc = "awaiting_model"
    /\ iteration' = iteration + 1
    /\ llmInvocations' = llmInvocations + 1
    /\ response' = r
    /\ requestedCalls' = requestedCalls + Len(r.tool_calls)
    /\ widestResponse' = IF Len(r.tool_calls) > widestResponse THEN Len(r.tool_calls)
                         ELSE widestResponse
    /\ toolTurns' = IF Len(r.tool_calls) > 0 THEN toolTurns + 1 ELSE toolTurns
    /\ aFailures' = IF r.kind = "exception" THEN Append(aFailures, "model") ELSE aFailures
    /\ firstSent' = IF llmInvocations = 0 THEN messages ELSE firstSent
    /\ IF r.kind = "exception"
       THEN /\ IF AskCatches(r.msg)
               THEN pc' = "failed" /\ result' = ErrorResult(question, r.msg)
               ELSE pc' = "raised" /\ UNCHANGED result
            /\ UNCHANGED <<messages, pending>>
       ELSE /\ messages' = Append(messages, AIMessage(r))
            /\ IF IsFinalAnswer(r)
               THEN /\ pc' = "done"
                    /\ result' = FinalResult(question, r, tool_calls_made, all_results)
                    /\ UNCHANGED pending
               ELSE /\ pc' = "executing_tool"
                    /\ pending' = r.tool_calls
                    /\ UNCHANGED result
    /\ UNCHANGED <<question, tool_calls_made, all_results, toolExecutions, aSessions, aRuns,
                   aQueries, aRowsReturned, carried, observation, agent>>
    /\ UNCHANGED <<toolVars, graphVars, formatVars, statsVars>>

\* one pass of the for loop, lines 177-214, the store answering with db; after the
\* last tool call of the response the while condition is tested again (149, 216-227)
ProcessToolCall(db) ==
    /\ pc = "executing_tool"
    /\ Len(pending) > 0
    /\ LET tool_call == Head(pending) IN
       IF tool_call.name = "execute_cypher_query"
       THEN LET cypher_query == ArgsGet(tool_call.args) IN
            \E r \in {execute_cypher(cypher_query, db)} :
               /\ tool_calls_made' = Append(tool_calls_made,
                                            ToolCallEntry(tool_call.name, cypher_query, r.payload))
               /\ all_results' = all_results \o r.payload.results
               /\ messages' = Append(messages, ToolMessage(JsonDumps(r.payload), tool_call.id))
               /\ toolExecutions' = toolExecutions + 1
               /\ aSessions' = aSessions + r.sessions
               /\ aRuns' = aRuns \o r.runs
               /\ aFailures' = IF ~ r.validation.valid THEN Append(aFailures, "validation")
                                ELSE IF db.kind # "rows" THEN Append(aFailures, "execution")
                                ELSE aFailures
               /\ aQueries' = Append(aQueries, cypher_query)
               /\ aRowsReturned' = aRowsReturned \o (IF r.validation.valid THEN db.rows ELSE <<>>)
               /\ observation' = r.payload
       ELSE UNCHANGED <<tool_calls_made, all_results, messages, toolExecutions, aSessions, aRuns,
                        aFailures, aQueries, aRowsReturned, observation>>
    /\ pending' = Tail(pending)
    /\ IF Len(pending) > 1
       THEN UNCHANGED <<pc, result>>
       ELSE IF LoopGuard(iteration)
       THEN pc' = "awaiting_model" /\ UNCHANGED result
       ELSE /\ pc' = "failed"
            /\ result' = MaxIterationsResult(question, tool_calls_made', all_results')
    /\ UNCHANGED <<question, iteration, response, llmInvocations, requestedCalls,
                   widestResponse, toolTurns, firstSent, carried, agent>>
    /\ UNCHANGED <<toolVars, graphVars, formatVars, statsVars>>

AgentInit ==
    /\ AgentIdle
    /\ GraphIdle
    /\ FormatIdle
    /\ StatsIdle
    /\ vOp = "none"
    /\ vQuery = ""
    /\ vResult = NoResult
    /\ tPayload = NoPayload
    /\ tSessions = 0
    /\ tRuns = <<>>

AgentNext ==
    \/ \E q \in Questions : Ask(q)
    \/ \E r \in Responses(iteration + 1, MaxToolCalls - requestedCalls) : InvokeModel(r)
    \/ \E db \in AgentDbOutcomes : ProcessToolCall(db)

Spec == AgentInit /\ [][AgentNext]_vars

\* llm_with_tools.invoke and neo4j_tool.execute_cypher are synchronous calls: a call
\* that was made returns or raises, so a started ask keeps taking its next step.
\* Here a response carries at most MaxLiveCalls tool calls, each a well-formed query
\* or a call of a tool the agent does not have.
MaxLiveCalls == 2

LiveRoom == IF MaxToolCalls - requestedCalls < MaxLiveCalls
            THEN MaxToolCalls - requestedCalls ELSE MaxLiveCalls

LiveCallShapes ==
    {[name |-> "execute_cypher_query",
      args |-> [has_query |-> TRUE, cypher_query |-> "MATCH (n) RETURN n"]],
     [name |-> "lookup_person", args |-> [has_query |-> FALSE, cypher_query |-> ""]]}

LiveToolCallLists(turn, n) ==
    {[k \in 1..n |-> [name |-> shapes[k].name, args |-> shapes[k].args,
                      id |-> "call_" \o IntStr(turn) \o "_" \o IntStr(k)]] :
        shapes \in [1..n -> LiveCallShapes]}

LiveResponses(turn, room) ==
    {[kind |-> "message", content |-> c, tool_calls |-> <<>>, msg |-> None] : c \in Contents}
    \cup {[kind |-> "message", content |-> "", tool_calls |-> tcs, msg |-> None] :
            tcs \in UNION {LiveToolCallLists(turn, n) : n \in 1..room}}
    \cup {[kind |-> "exception", content |-> "", tool_calls |-> <<>>, msg |-> e] : e \in LlmErrors}

ModelReturns ==
    /\ pc = "awaiting_model"
    /\ \E r \in LiveResponses(iteration + 1, LiveRoom) : InvokeModel(r)
StoreReturns ==
    /\ pc = "executing_tool"
    /\ \E db \in AgentDbOutcomes : ProcessToolCall(db)

LiveNext ==
    \/ \E q \in Questions : Ask(q)
    \/ ModelReturns
    \/ StoreReturns

SpecLive == AgentInit /\ [][LiveNext]_vars /\ WF_vars(ModelReturns) /\ WF_vars(StoreReturns)

\* The asks whose tool calls carry an empty, a whitespace-only or no cypher_query
\* argument, next to one well-formed query.
BlankQueries == {"", "  ", "\n\t "}
BlankCallShapes ==
    {[name |-> "execute_cypher_query", args |-> [has_query |-> TRUE, cypher_query |-> q]] :
        q \in BlankQueries \cup {"MATCH (n) RETURN n"}}
    \cup {[name |-> "execute_cypher_query", args |-> [has_query |-> FALSE, cypher_query |-> ""]]}

BlankToolCallLists(turn, n) ==
    {[k \in 1..n |-> [name |-> shapes[k].name, args |-> shapes[k].args,
                      id |-> "call_" \o IntStr(turn) \o "_" \o IntStr(k)]] :
        shapes \in [1..n -> BlankCallShapes]}

BlankResponses(turn, room) ==
    {[kind |-> "message", content |-> c, tool_calls |-> <<>>, msg |-> None] : c \in Contents}
    \cup {[kind |-> "message", content |-> "", tool_calls |-> tcs, msg |-> None] :
            tcs \in UNION {BlankToolCallLists(turn, n) : n \in 1..room}}
    \cup {[kind |-> "exception", content |-> "", tool_calls |-> <<>>, msg |-> e] : e \in LlmErrors}

\* a response carries at most MaxBlankCalls tool calls
MaxBlankCalls == 2
BlankRoom == IF MaxToolCalls - requestedCalls < MaxBlankCalls
             THEN MaxToolCalls - requestedCalls ELSE MaxBlankCalls

BlankNext ==
    \/ \E q \in Questions : Ask(q)
    \/ \E r \in BlankResponses(iteration + 1, BlankRoom) : InvokeModel(r)
    \/ \E db \in AgentDbOutcomes : ProcessToolCall(db)

SpecBlank == AgentInit /\ [][BlankNext]_vars

(***************************************************************************)
(* EntityExtractor.extract: the parsed model output, or the fallback       *)
(***************************************************************************)
IsBlank(text) == Len(text) = 0 \/ Len(Strip(text)) = 0

extract(q, llm) ==
    IF IsBlank(q)
    THEN [value |-> [is_dict |-> TRUE, entities |-> <<>>, query_intent |-> "Empty question"],
          llm |-> <<>>, thrown |-> <<>>]
    ELSE IF llm.kind = "raise"
    THEN [value |-> [is_dict |-> TRUE, entities |-> <<>>,
                     query_intent |-> "Error processing question"],
          llm |-> <<"extract">>, thrown |-> <<"extract">>]
    ELSE [value |-> llm.value, llm |-> <<"extract">>, thrown |-> <<>>]

(***************************************************************************)
(* CypherGenerator.generate and generate_with_validation                   *)
(***************************************************************************)
default_query == "MATCH (n) RETURN n LIMIT 10"

\* The markdown fence: three backquotes.  A TLA+ string cannot hold a backquote, so
\* the model writes the backquote character as ^ in every text it handles.
Fence == "^^^"

\* lines 177-187: what generate makes of the text the chain returned
CleanQuery(text) ==
    LET stripped == Strip(text)
        lines == Split(stripped, "\n")
        unfenced == IF StartsWith(stripped, Fence)
                    THEN IF Len(lines) > 2
                         THEN JoinWith("\n", SubSeq(lines, 2, Len(lines) - 1))
                         ELSE stripped
                    ELSE stripped
    IN Strip(Replace(Replace(unfenced, Fence \o "cypher", ""), Fence, ""))

generate(q, llm) ==
    IF IsBlank(q) THEN [query |-> default_query, llm |-> <<>>, thrown |-> <<>>, raw |-> None]
    ELSE IF llm.kind = "raise"
    THEN [query |-> default_query, llm |-> <<"generate">>, thrown |-> <<"generate">>,
          raw |-> None]
    ELSE [query |-> CleanQuery(llm.text), llm |-> <<"generate">>, thrown |-> <<>>,
          raw |-> llm.text]

generator_keywords == <<"MATCH", "RETURN", "CREATE", "MERGE">>
generator_invalid_labels == <<"User", "Organization", "Item", "Service">>

\* the labels of generator_invalid_labels found in the query, in list order
RECURSIVE FoundLabels(_, _)
FoundLabels(query, labels) ==
    IF Len(labels) = 0 THEN <<>>
    ELSE (IF Contains(query, ":" \o Head(labels)) THEN <<Head(labels)>> ELSE <<>>)
         \o FoundLabels(query, Tail(labels))

\* lines 222-235: the checks generate_with_validation makes on the generated query
validate_generated(g) ==
    LET query == g.query
        first == IF IsBlank(query)
                 THEN [valid |-> FALSE, error |-> "Empty query generated"]
                 ELSE IF ~ \E k \in Range(generator_keywords) : Contains(Upper(query), k)
                 THEN [valid |-> FALSE, error |-> "Query missing required Cypher keywords"]
                 ELSE [valid |-> TRUE, error |-> None]
        found == FoundLabels(query, generator_invalid_labels)
    IN IF Len(found) > 0
       THEN [query |-> query, valid |-> FALSE,
             error |-> "Query contains invalid labels: " \o JoinWith(", ", found),
             llm |-> g.llm, thrown |-> g.thrown, raw |-> g.raw]
       ELSE [query |-> query, valid |-> first.valid, error |-> first.error,
             llm |-> g.llm, thrown |-> g.thrown, raw |-> g.raw]

\* `cypher_query = self.generate(question)`, evaluated once, then checked
generate_with_validation(q, llm) ==
    CHOOSE r \in {validate_generated(g) : g \in {generate(q, llm)}} : TRUE

(***************************************************************************)
(* AnswerFormatter                                                         *)
(***************************************************************************)
_format_empty_results(q) ==
    "I couldn't find any information to answer '" \o q
    \o "'. The database might not contain data matching your query."

\* _format_simple without the results[:10] slice
_format_simple_all(q, results) ==
    LET count == Len(results)
        header == <<"Found " \o IntStr(count) \o " result(s):\n">>
        body == [i \in 1..count |-> IntStr(i) \o ". " \o "p.name: " \o results[i]]
        more == IF count > 10 THEN <<"\n... and " \o IntStr(count - 10) \o " more results">>
                ELSE <<>>
    IN IF count = 0 THEN _format_empty_results(q)
       ELSE JoinWith("\n", header \o body \o more)

\* a row is the dictionary {"p.name": <row>}: one "key: value" part per line
_format_simple(q, results) ==
    LET count == Len(results)
        listed == SubSeq(results, 1, IF count < 10 THEN count ELSE 10)
        header == <<"Found " \o IntStr(count) \o " result(s):\n">>
        body == [i \in 1..Len(listed) |-> IntStr(i) \o ". " \o "p.name: " \o listed[i]]
        more == IF count > 10 THEN <<"\n... and " \o IntStr(count - 10) \o " more results">>
                ELSE <<>>
    IN IF count = 0 THEN _format_empty_results(q)
       ELSE JoinWith("\n", header \o body \o more)

\* format_answer without the early return for empty results
format_answer_always_model(q, cypher_query, results, llm) ==
    IF llm.kind = "raise"
    THEN [answer |-> _format_simple(q, results), llm |-> <<"format">>,
          thrown |-> <<"format">>, path |-> "simple"]
    ELSE [answer |-> Strip(llm.text), llm |-> <<"format">>, thrown |-> <<>>, path |-> "model"]

\* format_answer without the try/except around the chain: the exception leaves it
format_answer_unguarded(q, cypher_query, results, llm) ==
    IF Len(results) = 0
    THEN [answer |-> _format_empty_results(q), llm |-> <<>>, thrown |-> <<>>, path |-> "empty"]
    ELSE IF llm.kind = "raise"
    THEN [answer |-> None, llm |-> <<"format">>, thrown |-> <<"format">>, path |-> "raised"]
    ELSE [answer |-> Strip(llm.text), llm |-> <<"format">>, thrown |-> <<>>, path |-> "model"]

\* the answer, the chain invocations made, the exceptions the chain threw, and the
\* return statement taken: "empty" (line 116), "model" (line 130), "simple" (line 134)
format_answer(q, cypher_query, results, llm) ==
    IF Len(results) = 0
    THEN [answer |-> _format_empty_results(q), llm |-> <<>>, thrown |-> <<>>, path |-> "empty"]
    ELSE IF llm.kind = "raise"
    THEN [answer |-> _format_simple(q, results), llm |-> <<"format">>,
          thrown |-> <<"format">>, path |-> "simple"]
    ELSE [answer |-> Strip(llm.text), llm |-> <<"format">>, thrown |-> <<>>, path |-> "model"]

(***************************************************************************)
(* GraphRAGAgent._execute_query and GraphRAGAgent.ask                      *)
(***************************************************************************)
_execute_query(cypher_query, db) ==
    [raised   |-> db.kind # "rows",
     msg      |-> db.msg,
     rows     |-> db.rows,
     sessions |-> 1,
     runs     |-> IF db.kind = "session_error" THEN <<>> ELSE <<cypher_query>>]

GraphErrorResult(q, e) ==
    [question |-> q, entities |-> <<>>, cypher_query |-> "", raw_results |-> <<>>,
     answer |-> "I encountered an error processing your question: " \o e,
     success |-> FALSE, error |-> "Error processing question: " \o e]

\* the early return with the validation message left without its prefix
InvalidQueryResult_bare(q, entities, cypher_query, error) ==
    [question |-> q, entities |-> entities, cypher_query |-> cypher_query,
     raw_results |-> <<>>,
     answer |-> "I couldn't generate a valid query for your question.",
     success |-> FALSE,
     error |-> error]

\* lines 134-147: the dictionary returned when cypher_result["valid"] is false
InvalidQueryResult(q, entities, cypher_query, error) ==
    [question |-> q, entities |-> entities, cypher_query |-> cypher_query,
     raw_results |-> <<>>,
     answer |-> "I couldn't generate a valid query for your question.",
     success |-> FALSE,
     error |-> "Invalid Cypher query: " \o error]

\* an except clause that lets the exception through (a narrower class than Exception)
GraphCatches_none(e) == FALSE

\* `except Exception as e` around the body of ask
GraphCatches(e) == TRUE

\* an exception e thrown inside the try block of ask: the except clause returns the
\* error dictionary, and an exception it does not catch leaves ask
GraphExcept(q, e, llm, thrown, sessions, runs) ==
    [result |-> IF GraphCatches(e) THEN GraphErrorResult(q, e) ELSE NoGraphReturn,
     llm |-> llm, sessions |-> sessions, runs |-> runs, thrown |-> thrown,
     caught |-> IF GraphCatches(e) THEN e ELSE None, raised |-> ~ GraphCatches(e)]

\* ask from the extraction result on: cypher_result is what generate_with_validation
\* returns when ask gets to call it
graph_ask_steps(q, extraction, cypher_result, db, fmt) ==
    IF ~ extraction.value.is_dict
    THEN GraphExcept(q, "'list' object has no attribute 'get'", extraction.llm,
                     extraction.thrown \o <<"processing">>, 0, <<>>)
         @@ [validation |-> NotGenerated, generated |-> None]
    ELSE
    LET entities == extraction.value.entities
        query_intent == extraction.value.query_intent
        cypher_query == cypher_result.query
        reported == [validation |-> [called |-> TRUE, valid |-> cypher_result.valid,
                                     error |-> cypher_result.error],
                     generated |-> cypher_result.raw]
    IN
    IF ~ cypher_result.valid
    THEN [result |-> InvalidQueryResult(q, entities, cypher_query, cypher_result.error),
          llm |-> extraction.llm \o cypher_result.llm, sessions |-> 0, runs |-> <<>>,
          thrown |-> extraction.thrown \o cypher_result.thrown, caught |-> None,
          raised |-> FALSE] @@ reported
    ELSE
    LET x == _execute_query(cypher_query, db) IN
    IF x.raised
    THEN GraphExcept(q, x.msg, extraction.llm \o cypher_result.llm,
                     extraction.thrown \o cypher_result.thrown \o <<"store">>,
                     x.sessions, x.runs) @@ reported
    ELSE
    LET f == format_answer(q, cypher_query, x.rows, fmt) IN
    [result |-> [question |-> q, entities |-> entities, query_intent |-> query_intent,
                 cypher_query |-> cypher_query, raw_results |-> x.rows, answer |-> f.answer,
                 success |-> TRUE, error |-> None],
     llm |-> extraction.llm \o cypher_result.llm \o f.llm,
     sessions |-> x.sessions, runs |-> x.runs,
     thrown |-> extraction.thrown \o cypher_result.thrown \o f.thrown, caught |-> None,
     raised |-> FALSE] @@ reported

\* the whole of ask: the result together with the chains invoked and the driver calls
graph_ask(q, ext, gen, db, fmt) ==
    CHOOSE r \in {graph_ask_steps(q, extraction, cypher_result, db, fmt) :
                     extraction \in {extract(q, ext)},
                     cypher_result \in {generate_with_validation(q, gen)}} : TRUE

(* What the hosted model may return to the three chains of GraphRAGAgent.  *)
GraphQuestions == {"Who works at TechCorp?", ""}

ExtractOutcomes ==
    {[kind |-> "ok", value |-> [is_dict |-> TRUE,
                                entities |-> <<[name |-> "TechCorp", type |-> "Company"]>>,
                                query_intent |-> "Find employees"]],
     [kind |-> "ok", value |-> [is_dict |-> FALSE, entities |-> <<>>, query_intent |-> ""]],
     [kind |-> "raise", value |-> [is_dict |-> TRUE, entities |-> <<>>, query_intent |-> ""]]}

GeneratedTexts ==
    {"MATCH (p:Person) RETURN p.name",
     Fence \o "cypher\nMATCH (n) RETURN n\n" \o Fence,
     Fence \o "\nMATCH (n) RETURN n",
     Fence \o "cypher\nMATCH (n)\nRETURN n",
     "CREATE (n:Person {name: 'x'})",
     "MATCH (n) DETACH DELETE n",
     "match (n:Person) set n.role = 'x' return n",
     "MATCH (u:User) RETURN u",
     "I cannot answer that.",
     "  "}

GenerateOutcomes ==
    {[kind |-> "ok", text |-> t] : t \in GeneratedTexts} \cup {[kind |-> "raise", text |-> ""]}

FormatOutcomes ==
    {[kind |-> "ok", text |-> " Alice works at TechCorp.\n"], [kind |-> "raise", text |-> ""]}

\* one call of GraphRAGAgent.ask(q)
GraphAsk(q, ext, gen, db, fmt) ==
    LET r == graph_ask(q, ext, gen, db, fmt) IN
    /\ gOp = "none"
    /\ gOp' = IF r.raised THEN "raised" ELSE "ask"
    /\ gResult' = r.result
    /\ gLlm' = r.llm
    /\ gSessions' = r.sessions
    /\ gRuns' = r.runs
    /\ gThrown' = r.thrown
    /\ gCaught' = r.caught
    /\ gValidation' = r.validation
    /\ gGenerated' = r.generated
    /\ UNCHANGED <<toolVars, agentVars, formatVars, statsVars>>

GraphInit ==
    /\ GraphIdle
    /\ AgentIdle
    /\ FormatIdle
    /\ StatsIdle
    /\ vOp = "none"
    /\ vQuery = ""
    /\ vResult = NoResult
    /\ tPayload = NoPayload
    /\ tSessions = 0
    /\ tRuns = <<>>

GraphNext ==
    \E q \in GraphQuestions, ext \in ExtractOutcomes, gen \in GenerateOutcomes,
       db \in DbOutcomes, fmt \in FormatOutcomes : GraphAsk(q, ext, gen, db, fmt)

SpecGraph == GraphInit /\ [][GraphNext]_vars

(* The two agents side by side, as test_refactoring.py loads them: one call of *)
(* either ask at a time.                                                       *)
AskNext ==
    \/ gOp = "none" /\ AgentNext
    \/ pc = "idle" /\ GraphNext

SpecAsk == AgentInit /\ [][AskNext]_vars

(***************************************************************************)
(* Direct calls on the AnswerFormatter: the question and the rows are      *)
(* drawn first, then one of its two methods is called.  Row lists run from *)
(* no row past the ten rows _format_simple lists, in two row orders.       *)
(***************************************************************************)
MaxFormatRows == 12

FormatQuestions == {"Who works at TechCorp?", "Which tools does Alice use?", ""}

FormatRow(i) == "row_" \o IntStr(i)

FormatRowLists ==
    {[i \in 1..n |-> FormatRow(i)] : n \in 0..MaxFormatRows}
    \cup {[i \in 1..n |-> FormatRow(n + 1 - i)] : n \in 0..MaxFormatRows}

FormatQueryArg == "MATCH (p:Person) RETURN p.name"

FormatInit ==
    /\ fOp = "none"
    /\ fQuestion \in FormatQuestions
    /\ fRows \in FormatRowLists
    /\ fModel = NoModelOutcome
    /\ fAnswer = None
    /\ fLlm = <<>>
    /\ fPath = "none"
    /\ vOp = "none"
    /\ vQuery = ""
    /\ vResult = NoResult
    /\ tPayload = NoPayload
    /\ tSessions = 0
    /\ tRuns = <<>>
    /\ AgentIdle
    /\ GraphIdle
    /\ StatsIdle

\* formatter.format_answer(fQuestion, query, fRows), the phrasing chain behaving as llm
FormatAnswer(llm) ==
    LET f == format_answer(fQuestion, FormatQueryArg, fRows, llm) IN
    /\ fOp = "none"
    /\ fOp' = "format_answer"
    /\ fModel' = IF Len(f.llm) > 0 THEN llm ELSE NoModelOutcome
    /\ fAnswer' = f.answer
    /\ fLlm' = f.llm
    /\ fPath' = f.path
    /\ UNCHANGED <<fQuestion, fRows>>
    /\ UNCHANGED <<toolVars, agentVars, graphVars, statsVars>>

\* formatter._format_simple(fQuestion, fRows)
FormatSimple ==
    /\ fOp = "none"
    /\ fOp' = "_format_simple"
    /\ fAnswer' = _format_simple(fQuestion, fRows)
    /\ UNCHANGED <<fQuestion, fRows, fModel, fLlm, fPath>>
    /\ UNCHANGED <<toolVars, agentVars, graphVars, statsVars>>

FormatNext ==
    \/ \E llm \in FormatOutcomes : FormatAnswer(llm)
    \/ FormatSimple

SpecFormat == FormatInit /\ [][FormatNext]_vars

(***************************************************************************)
(* GraphRAGAgent.get_statistics.  The store holds nodes, each with a list  *)
(* of labels (possibly none), and relationships, each with a type.  The    *)
(* four queries are answered from the store as it is when each one runs;   *)
(* another client may write to the store between two of them.              *)
(***************************************************************************)
MaxNodes == 2
MaxRels == 2

LabelLists == {<<>>, <<"Person">>, <<"Person", "Employee">>, <<"Company">>}
RelTypes == {"WORKS_AT", "USES"}

Stores ==
    {[nodes |-> ns, rels |-> rs] :
        ns \in UNION {[1..n -> LabelLists] : n \in 0..MaxNodes},
        rs \in UNION {[1..n -> RelTypes] : n \in 0..MaxRels}}

\* a relationship has two end nodes
WellFormedStore(store) == Len(store.rels) > 0 => Len(store.nodes) > 0

statistics_queries ==
    <<"MATCH (n) RETURN labels(n)[0] as label, count(*) as count ORDER BY label",
      "MATCH ()-[r]->() RETURN type(r) as type, count(*) as count ORDER BY type",
      "MATCH (n) RETURN count(n) as count",
      "MATCH ()-[r]->() RETURN count(r) as count">>

\* labels(n)[0]: the first label, null for a node without labels
FirstLabel(labels) == IF Len(labels) = 0 THEN None ELSE labels[1]

\* the first query grouping by every label of a node (UNWIND labels(n))
nodes_by_label_every_label(store) ==
    LET keys == UNION {Range(store.nodes[i]) : i \in 1..Len(store.nodes)}
    IN [l \in keys |-> Cardinality({i \in 1..Len(store.nodes) : l \in Range(store.nodes[i])})]

\* `nodes`: one record per value of labels(n)[0], with the number of such nodes
nodes_by_label(store) ==
    LET keys == {FirstLabel(store.nodes[i]) : i \in 1..Len(store.nodes)}
    IN [l \in keys |-> Cardinality({i \in 1..Len(store.nodes) : FirstLabel(store.nodes[i]) = l})]

\* `relationships`: one record per relationship type, with the number of such relationships
relationships_by_type(store) ==
    LET keys == Range(store.rels)
    IN [t \in keys |-> Cardinality({i \in 1..Len(store.rels) : store.rels[i] = t})]

total_nodes(store) == Len(store.nodes)
total_rels(store) == Len(store.rels)

\* what the k-th query of get_statistics assigns, run on the store as it is now
StatsAssign(locals, k, store) ==
    IF k = 1 THEN [locals EXCEPT !.nodes = nodes_by_label(store)]
    ELSE IF k = 2 THEN [locals EXCEPT !.relationships = relationships_by_type(store)]
    ELSE IF k = 3 THEN [locals EXCEPT !.total_nodes = total_nodes(store)]
    ELSE [locals EXCEPT !.total_rels = total_rels(store)]

StatisticsResult(locals) ==
    [success |-> TRUE,
     statistics |-> [total_nodes |-> locals.total_nodes,
                     total_relationships |-> locals.total_rels,
                     nodes_by_label |-> locals.nodes,
                     relationships_by_type |-> locals.relationships]]

StatisticsError(e) == [success |-> FALSE, error |-> e]

StatsDriverOutcomes == {[kind |-> "ok", msg |-> None], [kind |-> "raise", msg |-> "Query failed"]}
StatsSessionOutcomes ==
    {[kind |-> "ok", msg |-> None], [kind |-> "raise", msg |-> "Unable to connect"]}

StatsInit ==
    /\ sStore \in {st \in Stores : WellFormedStore(st)}
    /\ sOp = "none"
    /\ sFault = 0
    /\ sResult = NoStatistics
    /\ sRuns = <<>>
    /\ sLocals = NoLocals
    /\ sModified = FALSE
    /\ vOp = "none"
    /\ vQuery = ""
    /\ vResult = NoResult
    /\ tPayload = NoPayload
    /\ tSessions = 0
    /\ tRuns = <<>>
    /\ AgentIdle
    /\ GraphIdle
    /\ FormatIdle

\* get_statistics is called and opens its session
GetStatistics(o) ==
    /\ sOp = "none"
    /\ IF o.kind = "raise"
       THEN /\ sOp' = "stats"
            /\ sFault' = 1
            /\ sResult' = StatisticsError(o.msg)
       ELSE /\ sOp' = "running"
            /\ UNCHANGED <<sFault, sResult>>
    /\ UNCHANGED <<sStore, sRuns, sLocals, sModified>>
    /\ UNCHANGED <<toolVars, agentVars, graphVars, formatVars>>

\* the next session.run of get_statistics; after the fourth the call returns
StatsRun(o) ==
    LET k == Len(sRuns) + 1 IN
    /\ sOp = "running"
    /\ sRuns' = Append(sRuns, statistics_queries[k])
    /\ IF o.kind = "raise"
       THEN /\ sOp' = "stats"
            /\ sFault' = k + 1
            /\ sResult' = StatisticsError(o.msg)
            /\ UNCHANGED sLocals
       ELSE /\ sLocals' = StatsAssign(sLocals, k, sStore)
            /\ sOp' = IF k = Len(statistics_queries) THEN "stats" ELSE "running"
            /\ sResult' = IF k = Len(statistics_queries)
                           THEN StatisticsResult(sLocals') ELSE sResult
            /\ UNCHANGED sFault
    /\ UNCHANGED <<sStore, sModified>>
    /\ UNCHANGED <<toolVars, agentVars, graphVars, formatVars>>

\* another client of the store adds a node or a relationship while the call runs
StoreWrite ==
    /\ sOp = "running"
    /\ \/ /\ Len(sStore.nodes) < MaxNodes
          /\ \E ls \in LabelLists : sStore' = [sStore EXCEPT !.nodes = Append(@, ls)]
       \/ /\ Len(sStore.rels) < MaxRels
          /\ Len(sStore.nodes) > 0
          /\ \E t \in RelTypes : sStore' = [sStore EXCEPT !.rels = Append(@, t)]
    /\ sModified' = TRUE
    /\ UNCHANGED <<sOp, sFault, sResult, sRuns, sLocals>>
    /\ UNCHANGED <<toolVars, agentVars, graphVars, formatVars>>

StatsNext ==
    \/ \E o \in StatsSessionOutcomes : GetStatistics(o)
    \/ \E o \in StatsDriverOutcomes : StatsRun(o)
    \/ StoreWrite

SpecStats == StatsInit /\ [][StatsNext]_vars

(***************************************************************************)
(* Query texts given to the guard: a head, up to MaxMid tokens, a tail.    *)
(* The pieces cover every write keyword and every disallowed label in      *)
(* several letter cases, inside longer words and string literals, and with *)
(* whitespace or a parenthesis after the colon.                            *)
(***************************************************************************)
MaxMid == 1

Heads == {"", "MATCH (n", "match (n", "RETURN 1 "}
Tails == {"", ") RETURN n", ") return n.name", ") DELETE n"}
Tokens ==
    {"CREATE", " delete ", "Remove", "offSET", "'merge'", "DETACH",
     ":User", ":ORGANIZATION", ":item", ":Service", ":customer", ":Order",
     ": User", ":(user", ":Person", " "}

RECURSIVE Concat(_)
Concat(ss) == IF Len(ss) = 0 THEN "" ELSE Head(ss) \o Concat(Tail(ss))

Mids == {Concat(ts) : ts \in UNION {[1..n -> Tokens] : n \in 0..MaxMid}}

Queries == {h \o m \o t : h \in Heads, m \in Mids, t \in Tails}

\* Read-only queries over the schema of the tool definition (lines 152-162): the
\* labels Person, Company, Product, the relationships WORKS_AT, REPORTS_TO, USES,
\* and a string literal compared against a property.  The literals are names, roles
\* and categories as create_companies, create_products and create_people store them,
\* and two more a user may ask about.
SchemaLiterals ==
    {"TechCorp Solutions", "Software Engineer", "Security", "Emma Smith",
     "Asset Manager", "Emerge Labs"}

SchemaQueriesFor(l) ==
    {"MATCH (p:Person) WHERE p.role = '" \o l \o "' RETURN p.name",
     "MATCH (p:Person)-[:WORKS_AT]->(c:Company) WHERE c.name = '" \o l \o "' RETURN p.name",
     "MATCH (c:Company)-[:USES]->(p:Product) WHERE p.category = '" \o l \o "' RETURN c.name",
     "MATCH (p:Person)-[:REPORTS_TO]->(m:Person) WHERE m.name = '" \o l \o "' RETURN p.name"}

SchemaQueries == UNION {SchemaQueriesFor(l) : l \in SchemaLiterals}

\* One call on the tool: the argument is drawn here, the call is made by an action.
ToolInit ==
    /\ vOp = "none"
    /\ vQuery \in Queries \cup SchemaQueries
    /\ vResult = NoResult
    /\ tPayload = NoPayload
    /\ tSessions = 0
    /\ tRuns = <<>>
    /\ AgentIdle
    /\ GraphIdle
    /\ FormatIdle
    /\ StatsIdle

\* a direct call of tool._validate_query(vQuery)
ValidateQuery ==
    /\ vOp = "none"
    /\ vOp' = "validate"
    /\ vResult' = _validate_query(vQuery)
    /\ UNCHANGED <<vQuery, tPayload, tSessions, tRuns>>
    /\ UNCHANGED <<agentVars, graphVars, formatVars, statsVars>>

\* a direct call of tool.execute_cypher(vQuery), the store answering with db
ExecuteCypher(db) ==
    LET r == execute_cypher(vQuery, db) IN
    /\ vOp = "none"
    /\ vOp' = "execute"
    /\ vResult' = r.validation
    /\ tPayload' = r.payload
    /\ tSessions' = r.sessions
    /\ tRuns' = r.runs
    /\ UNCHANGED vQuery
    /\ UNCHANGED <<agentVars, graphVars, formatVars, statsVars>>

ToolNext ==
    \/ ValidateQuery
    \/ \E db \in DbOutcomes : ExecuteCypher(db)

SpecTool == ToolInit /\ [][ToolNext]_vars

(***************************************************************************)
(* Claims about the query guard (checked under SpecTool)                   *)
(***************************************************************************)
\* what the claims mean by "contains keyword k in any letter case"
Mentions(q, k) == Contains(Upper(q), k)
MentionsWrite(q) ==
    \E k \in {"CREATE", "DELETE", "REMOVE", "SET", "MERGE", "DETACH"} : Mentions(q, k)
DisallowedLabels == {"USER", "ORGANIZATION", "ITEM", "SERVICE", "CUSTOMER", "ORDER"}
\* ":Label" with nothing, or with whitespace, between the colon and the label
MentionsLabelTight(q) == \E l \in DisallowedLabels : Mentions(q, ":" \o l)
MentionsLabelSpaced(q) == \E l \in DisallowedLabels : Mentions(q, ": " \o l)
Validated == vOp \in {"validate", "execute"}

\* C3: a query whose text contains CREATE, DELETE, REMOVE, SET, MERGE or DETACH,
\* in any letter case and at any position, is rejected by _validate_query.
C3_WriteKeywordRejected ==
    (Validated /\ MentionsWrite(vQuery)) => ~ vResult.valid

C3_Witness ==
    /\ vOp = "validate"
    /\ vQuery = "match (noffSET) return n.name"
    /\ vResult = [valid |-> FALSE, error |-> "Write operations are not allowed"]

\* C4: every query that _validate_query accepts contains both MATCH and RETURN
\* (case-insensitively); a query with only one of the two is rejected.
C4_AcceptedHasMatchAndReturn ==
    (Validated /\ vResult.valid) => (Mentions(vQuery, "MATCH") /\ Mentions(vQuery, "RETURN"))

\* C5: a non-empty query that contains neither MATCH nor RETURN is rejected.
C5_NeitherKeywordRejected ==
    (Validated /\ Len(vQuery) > 0 /\ ~ Mentions(vQuery, "MATCH") /\ ~ Mentions(vQuery, "RETURN"))
        => ~ vResult.valid

C5_Witness ==
    /\ vOp = "validate"
    /\ vQuery = ":Person"
    /\ vResult = [valid |-> FALSE, error |-> "Query must contain MATCH and RETURN"]

\* C6: a query that references a disallowed label as a node label is rejected even
\* when it contains MATCH and RETURN and no write keyword, in any letter case of
\* the label and with or without whitespace between the colon and the label.
C6_DisallowedLabelRejected ==
    (/\ Validated
     /\ Mentions(vQuery, "MATCH") /\ Mentions(vQuery, "RETURN") /\ ~ MentionsWrite(vQuery)
     /\ (MentionsLabelTight(vQuery) \/ MentionsLabelSpaced(vQuery)))
        => ~ vResult.valid

\* C7: execute_cypher on a query the guard rejects opens no session, runs nothing
\* and returns success false, results [], count 0, error 'Invalid query: <reason>'.
C7_RejectedNeverExecuted ==
    (vOp = "execute" /\ ~ vResult.valid) =>
        /\ tSessions = 0
        /\ tRuns = <<>>
        /\ tPayload = [success |-> FALSE, results |-> <<>>, count |-> 0,
                        error |-> "Invalid query: " \o vResult.error]

C7_Witness ==
    /\ vOp = "execute"
    /\ vQuery = "MATCH (n) DELETE n"
    /\ tSessions = 0
    /\ tRuns = <<>>
    /\ tPayload.error = "Invalid query: Write operations are not allowed"

(***************************************************************************)
(* Claims about ToolCallingAgent.ask (checked under Spec)                  *)
(***************************************************************************)
Returned == pc \in {"done", "failed"}

\* C1: in one call of ask the model is invoked at most max_iterations = 3 times,
\* whatever the model responds (answers, tool requests, exceptions).
C1_ModelInvocationsBounded == llmInvocations <= 3

C1_Witness ==
    /\ pc = "failed"
    /\ llmInvocations = 3
    /\ result.error = "Max iterations reached"

C9_DirectAnswerReturnsAtOnce ==
    [][/\ (/\ llmInvocations' = llmInvocations + 1
            /\ response'.kind = "message"
            /\ Len(response'.tool_calls) = 0)
           => /\ llmInvocations' <= 3
              /\ pc' = "done"
              /\ result'.answer = response'.content
              /\ result'.success = TRUE
              /\ result'.error = None
              /\ toolExecutions' = toolExecutions
       /\ pc = "done"
           => /\ llmInvocations' <= llmInvocations
              /\ toolExecutions' <= toolExecutions]_vars

C9_Witness ==
    /\ pc = "done"
    /\ llmInvocations = 2
    /\ toolExecutions = 1
    /\ result.answer = "Alice works at TechCorp."
    /\ result.success
    /\ result.error = None

\* C10: if the model requests a tool call in each of the 3 turns, ask returns the
\* fixed apology with success false and error 'Max iterations reached'.
C10_CapReturnsFixedFailure ==
    (Returned /\ llmInvocations = 3 /\ toolTurns = 3) =>
        /\ result.answer = "I encountered an issue processing your question after multiple attempts."
        /\ result.success = FALSE
        /\ result.error = "Max iterations reached"

C10_Witness ==
    /\ pc = "failed"
    /\ toolTurns = 3
    /\ toolExecutions = 3
    /\ result.success = FALSE
    /\ result.error = "Max iterations reached"

(***************************************************************************)
(* Claims about GraphRAGAgent.ask (checked under SpecGraph)                *)
(***************************************************************************)
\* C8: every query GraphRAGAgent.ask sends to the graph store has passed the
\* read-only query guard, so no query with a mutating primitive is executed.
C8_GraphAskRunsOnlyGuardedQueries ==
    \A i \in DOMAIN gRuns :
        /\ _validate_query(gRuns[i]).valid
        /\ ~ MentionsWrite(gRuns[i])

(***************************************************************************)
(* Claims about failures inside the two ask methods                        *)
(***************************************************************************)
ThrownInAsk == {i \in 1..Len(aFailures) : aFailures[i] \in {"model", "execution"}}

C12_ModelFailureEndsTheAsk ==
    [][/\ (llmInvocations' = llmInvocations + 1 /\ response'.kind = "exception")
           => /\ pc' = "failed"
              /\ result'.success = FALSE
              /\ result'.error = response'.msg
              /\ toolExecutions' = toolExecutions
       /\ (pc = "failed" /\ response.kind = "exception")
           => /\ llmInvocations' <= llmInvocations
              /\ toolExecutions' <= toolExecutions]_vars

C12_Witness ==
    /\ pc = "failed"
    /\ response.kind = "exception"
    /\ llmInvocations = 2
    /\ toolExecutions = 1
    /\ result.success = FALSE
    /\ result.error = "Rate limit exceeded"

QueryFailedInAsk ==
    \E i \in 1..Len(aFailures) : aFailures[i] \in {"validation", "execution"}

IsDirectAnswer(r) == r.kind = "message" /\ Len(r.tool_calls) = 0

\* C13 as stated: if a query handled during ToolCallingAgent.ask failed validation or
\* failed during execution, the result ask returns has success false and a
\* non-null error message.
C13_FailedQueryFailsTheAsk ==
    (Returned /\ QueryFailedInAsk) =>
        /\ result.success = FALSE
        /\ result.error # None

\* C13 (amended): a query that fails validation or execution is recorded in
\* tool_calls_made with success false and count 0, adds no rows, and is handed back
\* to the model as the observation {success false, results [], count 0, error text};
\* the result of an ask in which a query failed is a success exactly when the model
\* afterwards answers directly, and a failure with a non-null error otherwise.
C13_FailedQueryIsReportedToTheModel ==
    [][/\ (toolExecutions' = toolExecutions + 1 /\ Len(aFailures') = Len(aFailures) + 1)
           => /\ tool_calls_made'[Len(tool_calls_made')].success = FALSE
              /\ tool_calls_made'[Len(tool_calls_made')].count = 0
              /\ all_results' = all_results
              /\ messages'[Len(messages')].role = "tool"
              /\ StartsWith(messages'[Len(messages')].content,
                            "{\"success\": false, \"results\": [], \"count\": 0, \"error\": \"")
       /\ (pc' \in {"done", "failed"} /\ QueryFailedInAsk')
           => /\ result'.success <=> IsDirectAnswer(response')
              /\ ~ result'.success => result'.error # None]_vars

C13_Witness ==
    /\ pc = "done"
    /\ aFailures = <<"validation">>
    /\ Len(tool_calls_made) = 1
    /\ tool_calls_made[1].success = FALSE
    /\ result.success = TRUE
    /\ result.error = None

ThrownBy(chain) == \E i \in 1..Len(gThrown) : gThrown[i] = chain

\* C14: if the model call fails during entity extraction or during query generation
\* inside GraphRAGAgent.ask, the result has success false and a non-null error, and
\* after a failed generation no query is run on the store.
C14_ModelFailureFailsGraphAsk ==
    (gOp = "ask" /\ (ThrownBy("extract") \/ ThrownBy("generate"))) =>
        /\ gResult.success = FALSE
        /\ gResult.error # None
        /\ ThrownBy("generate") => gRuns = <<>>

\* the payload execute_cypher builds in its except clause for an exception with text e
StoreFailurePayload(e) == [success |-> FALSE, results |-> <<>>, count |-> 0, error |-> e]

\* C15: when the database raises while execute_cypher runs a valid query, the
\* exception does not leave execute_cypher: the payload {success false, results [],
\* count 0, error: the exception text} is appended as that tool call's observation
\* and ask goes on with the loop: the next tool call of the response, else the
\* next turn, and after the third turn the ordinary iteration-cap return; ask is
\* not aborted through its except clause.
C15_StoreFailureIsObservedAndAskContinues ==
    [][(toolExecutions' = toolExecutions + 1 /\ aFailures' = Append(aFailures, "execution"))
          => /\ \E o \in AgentDbOutcomes :
                   /\ o.kind # "rows"
                   /\ messages' = Append(messages,
                                         ToolMessage(JsonDumps(StoreFailurePayload(o.msg)),
                                                     Head(pending).id))
             /\ tool_calls_made'[Len(tool_calls_made')].success = FALSE
             /\ tool_calls_made'[Len(tool_calls_made')].count = 0
             /\ all_results' = all_results
             /\ pc' # "raised"
             /\ IF Len(pending) > 1 THEN pc' = "executing_tool"
                ELSE IF iteration < 3 THEN pc' = "awaiting_model"
                ELSE /\ pc' = "failed"
                     /\ result'.error = "Max iterations reached"]_vars

C15_Witness ==
    /\ pc = "awaiting_model"
    /\ iteration = 1
    /\ aFailures = <<"execution">>
    /\ aRuns = <<"MATCH (n) RETURN n">>
    /\ Len(messages) = 4
    /\ messages[4].role = "tool"
    /\ messages[4].content = "{\"success\": false, \"results\": [], \"count\": 0, \"error\": \"Query failed\"}"

\* C16: on every return path of ToolCallingAgent.ask the result's tool_calls holds one
\* entry for each query passed to execute_cypher during the call, in execution order,
\* and results holds all rows those queries returned, in the same order.
C16_ResultHoldsEveryExecutedQuery ==
    Returned =>
        /\ Len(result.tool_calls) = Len(aQueries)
        /\ \A i \in 1..Len(aQueries) : result.tool_calls[i].query = aQueries[i]
        /\ result.results = aRowsReturned

(***************************************************************************)
(* Claims about AnswerFormatter (checked under SpecFormat)                 *)
(***************************************************************************)
FormatterCalled == fOp \in {"format_answer", "_format_simple"}

\* C17 as stated: given zero rows, _format_simple and format_answer return one and
\* the same message whatever the question (the message returned for any other
\* question), without calling the model.
C17_NoResultsMessageIgnoresQuestion ==
    (FormatterCalled /\ Len(fRows) = 0) =>
        /\ \A q \in FormatQuestions : fAnswer = _format_empty_results(q)
        /\ fLlm = <<>>

\* C17 (amended): given zero rows, _format_simple and format_answer return the same
\* no-results sentence on every call, with the question of that call quoted in it,
\* and do not call the model.
C17_NoResultsMessageQuotesQuestion ==
    (FormatterCalled /\ Len(fRows) = 0) =>
        /\ fAnswer = "I couldn't find any information to answer '" \o fQuestion
                      \o "'. The database might not contain data matching your query."
        /\ fLlm = <<>>
        /\ fModel = NoModelOutcome

C17_Witness ==
    /\ fOp = "format_answer"
    /\ fRows = <<>>
    /\ fQuestion = "Which tools does Alice use?"
    /\ fAnswer = "I couldn't find any information to answer 'Which tools does Alice use?'. The database might not contain data matching your query."
    /\ fLlm = <<>>

Min(a, b) == IF a < b THEN a ELSE b

\* C18: for n >= 1 rows _format_simple returns a header line reporting n, then
\* exactly min(n, 10) entry lines, the i-th numbered i and showing the i-th row, and
\* then the line '... and n-10 more results' exactly when n > 10 (the header and the
\* overflow line are each set off by an empty line).
C18_SimpleFormatListsFirstTen ==
    (fOp = "_format_simple" /\ Len(fRows) >= 1) =>
        LET n == Len(fRows)
            k == Min(n, 10)
            lines == Split(fAnswer, "\n")
        IN /\ Len(lines) = IF n > 10 THEN k + 4 ELSE k + 2
           /\ lines[1] = "Found " \o IntStr(n) \o " result(s):"
           /\ lines[2] = ""
           /\ \A i \in 1..k : lines[2 + i] = IntStr(i) \o ". p.name: " \o fRows[i]
           /\ n > 10 => /\ lines[k + 3] = ""
                         /\ lines[k + 4] = "... and " \o IntStr(n - 10) \o " more results"
           /\ n <= 10 => ~ Contains(fAnswer, "more results")

C18_Witness ==
    /\ fOp = "_format_simple"
    /\ Len(fRows) = 11
    /\ fRows[1] = "row_11"
    /\ Contains(fAnswer, "\n10. p.name: row_2\n\n... and 1 more results")
    /\ ~ Contains(fAnswer, "11. ")

\* C19: format_answer leaves through the fallback rendering _format_simple exactly when
\* the rows are non-empty and the phrasing chain raises, and then returns that
\* rendering; when the chain succeeds on non-empty rows the answer is the text the
\* model produced (with surrounding whitespace stripped by answer.strip()); a
\* failing chain never makes format_answer raise.
C19_FallbackExactlyOnModelFailure ==
    fOp = "format_answer" =>
        /\ fPath = "simple" <=> (Len(fRows) > 0 /\ fModel.kind = "raise")
        /\ fPath = "simple" =>
               /\ StartsWith(fAnswer, "Found " \o IntStr(Len(fRows)) \o " result(s):\n\n1. ")
               /\ fLlm = <<"format">>
        /\ (Len(fRows) > 0 /\ fModel.kind = "ok") =>
               /\ fPath = "model"
               /\ fAnswer = Strip(fModel.text)
               /\ fLlm = <<"format">>
        /\ fPath # "raised"
        /\ fAnswer # None

C19_Witness ==
    /\ fOp = "format_answer"
    /\ Len(fRows) = 2
    /\ fModel.kind = "raise"
    /\ fPath = "simple"
    /\ fAnswer = "Found 2 result(s):\n\n1. p.name: row_1\n2. p.name: row_2"

(***************************************************************************)
(* Claims about GraphRAGAgent.get_statistics (checked under SpecStats)     *)
(***************************************************************************)
RECURSIVE SumOver(_, _)
SumOver(f, keys) ==
    IF keys = {} THEN 0
    ELSE LET k == CHOOSE x \in keys : TRUE IN f[k] + SumOver(f, keys \ {k})

SumOfCounts(f) == SumOver(f, DOMAIN f)

\* the query texts get_statistics may hand to the store do not mention a write keyword
StatisticsQueriesOnlyRead ==
    \A i \in 1..Len(statistics_queries) : ~ MentionsWrite(statistics_queries[i])

\* C20: when no one writes to the store during the call, get_statistics returns
\* success true with per-label node counts and per-type relationship counts whose
\* sums equal the reported total_nodes and total_relationships (which are the
\* store's node and relationship counts); the queries it issues are its four read
\* queries, in order; and when the session or a query raises, it returns success
\* false with the exception text.
C20_StatisticsAddUp ==
    /\ (sOp = "stats" /\ sFault = 0 /\ ~ sModified) =>
           /\ sResult.success = TRUE
           /\ SumOfCounts(sResult.statistics.nodes_by_label) = sResult.statistics.total_nodes
           /\ SumOfCounts(sResult.statistics.relationships_by_type)
                  = sResult.statistics.total_relationships
           /\ sResult.statistics.total_nodes = Len(sStore.nodes)
           /\ sResult.statistics.total_relationships = Len(sStore.rels)
    /\ (sOp = "stats" /\ sFault > 0) =>
           /\ sResult.success = FALSE
           /\ sResult.error = IF sFault = 1 THEN "Unable to connect" ELSE "Query failed"
           /\ Len(sRuns) = sFault - 1
    /\ Len(sRuns) <= 4
    /\ \A i \in 1..Len(sRuns) : sRuns[i] = statistics_queries[i]
    /\ StatisticsQueriesOnlyRead

C20_Witness ==
    /\ sOp = "stats"
    /\ sFault = 0
    /\ ~ sModified
    /\ sStore.nodes = <<<<"Person", "Employee">>, <<>>>>
    /\ sStore.rels = <<"WORKS_AT", "WORKS_AT">>
    /\ sResult.success = TRUE
    /\ sResult.statistics.total_nodes = 2
    /\ sResult.statistics.nodes_by_label["Person"] = 1
    /\ sResult.statistics.relationships_by_type["WORKS_AT"] = 2

(***************************************************************************)
(* Claims about the conversation and the control flow of                   *)
(* ToolCallingAgent.ask                                                    *)
(***************************************************************************)
\* C21: before every model invocation after the first, the conversation ends with the
\* preceding model response followed by exactly one tool-result message for each
\* tool call that response requested, with the matching tool_call_id, in request
\* order, whatever function name the tool call carries.
C21_EveryToolCallIsAnswered ==
    (pc = "awaiting_model" /\ llmInvocations >= 1) =>
        LET n == Len(response.tool_calls)
            m == Len(messages)
        IN /\ m - n >= 1
           /\ messages[m - n].role = "ai"
           /\ \A k \in 1..n :
                  /\ messages[m - n + k].role = "tool"
                  /\ messages[m - n + k].tool_call_id = response.tool_calls[k].id

\* C22: ask moves as the state machine {awaiting-model, executing-tool, done, failed}:
\* awaiting-model goes to done on a direct answer, to executing-tool on a tool
\* request, to failed on an exception; executing-tool stays for the next tool call of
\* the response, goes back to awaiting-model, or after the third turn to failed;
\* done and failed are left only by a new call of ask; and, every model and
\* database call returning or raising, a started call reaches done or failed.
C22_AskIsABoundedStateMachine ==
    /\ [][/\ pc' \in {"idle", "awaiting_model", "executing_tool", "done", "failed"}
          /\ (pc = "awaiting_model") =>
                 (/\ pc' \in {"done", "executing_tool", "failed"}
                  /\ (pc' = "done") <=> IsDirectAnswer(response')
                  /\ (pc' = "failed") <=> (response'.kind = "exception"))
          /\ (pc = "executing_tool") =>
                 (/\ pc' \in {"executing_tool", "awaiting_model", "failed"}
                  /\ (pc' = "awaiting_model") => (iteration < 3)
                  /\ (pc' = "failed") => (iteration = 3))
          /\ (pc \in {"done", "failed"}) =>
                 (\/ pc' = pc /\ result' = result
                  \/ pc' = "awaiting_model" /\ llmInvocations' = 0 /\ Len(messages') = 2)]_vars
    /\ (pc \in {"awaiting_model", "executing_tool"}) ~> (pc \in {"done", "failed"})

C22_Witness ==
    /\ pc = "failed"
    /\ iteration = 3
    /\ toolTurns = 3
    /\ toolExecutions = 3
    /\ pending = <<>>

(***************************************************************************)
(* C23                                                                     *)
(***************************************************************************)
\* the tool-result messages of the conversation, in order
ToolMessages == SelectSeq(messages, LAMBDA m : m.role = "tool")

\* the queries among qs that are more than whitespace
NonBlank(qs) == {k \in 1..Len(qs) : Len(Strip(qs[k])) > 0}

EmptyQueryPayload ==
    [success |-> FALSE, results |-> <<>>, count |-> 0, error |-> "Invalid query: Empty query"]

\* C23: a tool call whose cypher_query argument is empty, whitespace-only or missing
\* is recorded in tool_calls with success false and count 0, its observation fed to
\* the model is the payload with error 'Invalid query: Empty query', and it opens no
\* session and runs no query: sessions and runs are those of the other calls only.
C23_EmptyQueryIsRejectedUnexecuted ==
    /\ Len(tool_calls_made) = Len(aQueries)
    /\ Len(ToolMessages) = Len(aQueries)
    /\ \A k \in 1..Len(aQueries) :
           Len(Strip(aQueries[k])) = 0 =>
               /\ tool_calls_made[k].success = FALSE
               /\ tool_calls_made[k].count = 0
               /\ ToolMessages[k].content = JsonDumps(EmptyQueryPayload)
    /\ aSessions = Cardinality(NonBlank(aQueries))
    /\ Len(aRuns) = Cardinality(NonBlank(aQueries))
    /\ \A i \in 1..Len(aRuns) : Len(Strip(aRuns[i])) > 0
    /\ (pc \in {"done", "failed"} /\ result.error \in {None, "Max iterations reached"}) =>
           result.tool_calls = tool_calls_made

C23_Witness ==
    /\ pc = "done"
    /\ Len(aQueries) = 3
    /\ aQueries[1] = ""
    /\ aQueries[2] = "\n\t "
    /\ aQueries[3] = "MATCH (n) RETURN n"
    /\ response.tool_calls = <<>>
    /\ aSessions = 1

(***************************************************************************)
(* C24                                                                     *)
(***************************************************************************)
\* C24: when generate_with_validation reports the generated query as invalid,
\* GraphRAGAgent.ask opens no session and runs no query, and returns the answer
\* 'I couldn't generate a valid query for your question.' with success false,
\* raw_results [] and error 'Invalid Cypher query: ' followed by the reported reason.
C24_InvalidGeneratedQueryIsNotExecuted ==
    (gOp = "ask" /\ gValidation.called /\ ~ gValidation.valid) =>
        /\ gSessions = 0
        /\ gRuns = <<>>
        /\ gResult.answer = "I couldn't generate a valid query for your question."
        /\ gResult.success = FALSE
        /\ gResult.raw_results = <<>>
        /\ gResult.error = "Invalid Cypher query: " \o gValidation.error

C24_Witness ==
    /\ gOp = "ask"
    /\ gValidation = [called |-> TRUE, valid |-> FALSE,
                      error |-> "Query contains invalid labels: User"]
    /\ gResult.cypher_query = "MATCH (u:User) RETURN u"
    /\ gResult.error = "Invalid Cypher query: Query contains invalid labels: User"

(***************************************************************************)
(* C25                                                                     *)
(***************************************************************************)
\* whether xs is empty or the whole of ys
EmptyOrAll(xs, ys) == xs = <<>> \/ xs = ys

\* C25: successive calls of ask on one agent are independent: the conversation of the
\* first model invocation of a call is the system prompt and that call's question
\* only, the tool results in the conversation and the tool calls and rows of the
\* returned dictionary are those of this call, and no step of ask changes the
\* agent's fields.
C25_SuccessiveAsksAreIndependent ==
    /\ [](/\ (llmInvocations >= 1) =>
                firstSent = <<SystemMessage(system_prompt), HumanMessage(question)>>
          /\ Len(ToolMessages) = toolExecutions
          /\ (pc \in {"done", "failed"}) =>
                /\ result.question = question
                /\ EmptyOrAll(result.tool_calls, tool_calls_made)
                /\ Len(result.tool_calls) <= Len(aQueries)
                /\ \A k \in 1..Len(result.tool_calls) :
                       result.tool_calls[k].query = aQueries[k]
                /\ EmptyOrAll(result.results, aRowsReturned))
    /\ [][agent' = agent]_vars

C25_Witness ==
    /\ carried
    /\ pc = "done"
    /\ llmInvocations = 1
    /\ Len(messages) = 3
    /\ result.tool_calls = <<>>
    /\ result.results = <<>>

(***************************************************************************)
(* C26                                                                     *)
(***************************************************************************)
\* C26: _validate_query accepts every read-only query MATCH ... WHERE ... RETURN over
\* the labels Person, Company, Product and the relationships WORKS_AT, REPORTS_TO,
\* USES, whatever string literal the query compares against.
C26_SchemaReadQueryAccepted ==
    (Validated /\ vQuery \in SchemaQueries) => vResult.valid

(***************************************************************************)
(* C27                                                                     *)
(***************************************************************************)
RECURSIVE SumOfCountFields(_)
SumOfCountFields(entries) ==
    IF Len(entries) = 0 THEN 0
    ELSE Head(entries).count + SumOfCountFields(Tail(entries))

\* C27: in every dictionary ask returns, the number of rows in results is the sum of
\* the count fields of the tool_calls entries, and every entry with success false
\* has count 0.
C27_RowsMatchTheCounts ==
    (pc \in {"done", "failed"}) =>
        /\ Len(result.results) = SumOfCountFields(result.tool_calls)
        /\ \A k \in 1..Len(result.tool_calls) :
               ~ result.tool_calls[k].success => result.tool_calls[k].count = 0

C27_Witness ==
    /\ pc = "done"
    /\ Len(result.tool_calls) = 3
    /\ result.tool_calls[1].success /\ result.tool_calls[1].count = 1
    /\ ~ result.tool_calls[2].success
    /\ result.tool_calls[3].success
    /\ Len(result.results) = 2

(***************************************************************************)
(* C28                                                                     *)
(***************************************************************************)
\* success is true exactly when error is null
SuccessIffNoError(d) == d.success <=> (d.error = None)

\* C28: in every dictionary returned by ToolCallingAgent.ask, GraphRAGAgent.ask and
\* execute_cypher, success is true exactly when error is null; and in what
\* execute_cypher returns, count is the length of results and results is empty
\* whenever success is false.
C28_SuccessExactlyWhenNoError ==
    /\ (pc \in {"done", "failed"}) => SuccessIffNoError(result)
    /\ (gOp = "ask") => SuccessIffNoError(gResult)
    /\ (toolExecutions >= 1) =>
           /\ SuccessIffNoError(observation)
           /\ observation.count = Len(observation.results)
           /\ ~ observation.success => observation.results = <<>>

C28_Witness ==
    /\ pc = "failed"
    /\ result.error = "Max iterations reached"
    /\ toolExecutions = 4
    /\ ~ observation.success
    /\ observation.error = "Query failed"
    /\ Len(result.results) = 3

(***************************************************************************)
(* C29                                                                     *)
(***************************************************************************)
\* the tool calls of a response that ask hands to execute_cypher
ExecuteCalls(tcs) == SelectSeq(tcs, LAMBDA c : c.name = "execute_cypher_query")

\* C29: when ask ends with 'Max iterations reached', the model was invoked three
\* times and not again, every query requested in the third turn was passed to
\* execute_cypher (the accepted ones reaching the store), and the returned
\* tool_calls and results hold those calls and their rows.
C29_LastTurnIsExecutedUnread ==
    (pc = "failed" /\ result.error = "Max iterations reached") =>
        LET last == ExecuteCalls(response.tool_calls)
            n == Len(last)
            m == Len(aQueries)
        IN /\ llmInvocations = max_iterations
           /\ pending = <<>>
           /\ n <= m
           /\ Len(result.tool_calls) = m
           /\ \A k \in 1..n :
                  /\ aQueries[m - n + k] = ArgsGet(last[k].args)
                  /\ result.tool_calls[m - n + k].query = ArgsGet(last[k].args)
           /\ aSessions = Cardinality({k \in 1..m : _validate_query(aQueries[k]).valid})
           /\ result.results = aRowsReturned
           /\ Len(ToolMessages) = m

C29_Witness ==
    /\ pc = "failed"
    /\ result.error = "Max iterations reached"
    /\ Len(response.tool_calls) = 2
    /\ Len(ExecuteCalls(response.tool_calls)) = 2
    /\ Len(result.results) = 4
    /\ messages[Len(messages)].role = "tool"

(***************************************************************************)
(* C30                                                                     *)
(***************************************************************************)
\* the lines of the model output that are not fence markers
QueryTextLines(text) ==
    SelectSeq(Split(Strip(text), "\n"), LAMBDA l : ~ StartsWith(l, Fence))

\* generate returned what it made of the model output gGenerated
GenerateReturned == gOp = "ask" /\ gGenerated # None /\ gCaught = None

\* C30: when the model output begins with a code fence, the query generate returns
\* contains no fence and consists of every line of the output that is not a
\* fence marker, also when the closing fence is missing.
C30_OnlyTheFenceMarkersAreRemoved ==
    (GenerateReturned /\ StartsWith(Strip(gGenerated), Fence)) =>
        /\ ~ Contains(gResult.cypher_query, Fence)
        /\ Split(gResult.cypher_query, "\n") = QueryTextLines(gGenerated)

====
